---- MODULE Spec2Model ----
(***************************************************************************)
(* WundergroundLike (bin/user/wundergroundLike.py): a weewx RESTful        *)
(* service that subclasses weewx.restx.StdWunderground.  The model covers  *)
(* the initializer (the inherited initializer it calls first, the          *)
(* configuration lookup, the forced rapidfire flag, the archive and        *)
(* rapidfire paths) and the two event callbacks.                           *)
(*                                                                         *)
(* Python values are written as follows.  A dict of options is a function  *)
(* over Keys whose absent keys hold Missing.  Option values are strings as *)
(* configobj delivers them; a Python literal stored into a dict is written *)
(* by its repr ("False", "0", "1", "2.5").  A record or packet is a        *)
(* function from field names to integers, PyNone standing for None.  A     *)
(* queue.Queue is a sequence in a heap of queues (an object is its index), *)
(* a worker thread is an element of the sequence of constructed threads;   *)
(* an unset attribute of self is 0.                                        *)
(***************************************************************************)
EXTENDS Integers, Sequences, FiniteSets, TLC

\* ------------------------------------------------------------------ bounds
\* events the host dispatches after start-up
MaxEvents == 2

\* ------------------------------------------------------------ python dicts
Missing == "<missing>"
PyNone == 0 - 1

Keys ==
  {"enable", "station", "password", "server_url", "rapidfire", "archive_post",
   "log_success", "log_failure", "max_backlog", "max_tries", "rtfreq"}

EmptyDict == [k \in Keys |-> Missing]

Has(d, k) == d[k] # Missing
Get(d, k, default) == IF Has(d, k) THEN d[k] ELSE default
SetDefault(d, k, v) == IF Has(d, k) THEN d ELSE [d EXCEPT ![k] = v]
Remove(d, k) == [d EXCEPT ![k] = Missing]

\* weeutil.weeutil.to_bool: [ok |-> FALSE] is the ValueError it raises
to_bool(x) ==
  IF x \in {"true", "True", "yes", "y"} THEN [ok |-> TRUE, val |-> TRUE]
  ELSE IF x \in {"false", "False", "no", "n"} THEN [ok |-> TRUE, val |-> FALSE]
  ELSE IF x \in {"1", "2", "3"} THEN [ok |-> TRUE, val |-> TRUE]
  ELSE IF x = "0" THEN [ok |-> TRUE, val |-> FALSE]
  ELSE [ok |-> FALSE, val |-> FALSE]

PyBool(b) == IF b THEN "True" ELSE "False"

\* --------------------------------------------------------- class attributes
rf_url == "http://localhost/rf_url_undefined"
pws_url == "http://localhost/pws_url_undefined"
\* the attributes of the parent class, weewx.restx.StdWunderground
Std_rf_url == "https://rtupdate.wunderground.com/weatherstation/updateweatherstation.php"
Std_pws_url == "https://weatherstation.wunderground.com/weatherstation/updateweatherstation.php"

NEW_ARCHIVE_RECORD == "NEW_ARCHIVE_RECORD"
NEW_LOOP_PACKET == "NEW_LOOP_PACKET"

\* ------------------------------------------------------------ configuration
\* A section of [StdRESTful] as get_site_dict reads it: present or not, and
\* its options.
NoSection == [present |-> FALSE, opts |-> EmptyDict]
Section(d) == [present |-> TRUE, opts |-> d]

Tuning ==
  { EmptyDict,
    [EmptyDict EXCEPT !["max_tries"] = "3"],
    [EmptyDict EXCEPT !["log_success"] = "false", !["rtfreq"] = "5.0",
                      !["max_backlog"] = "2"] }

\* the [[WundergroundLike]] sections that name station, password, server_url
CompleteLike ==
  { [t EXCEPT !["enable"] = e, !["station"] = "KLIKE1", !["password"] = "likepw",
              !["server_url"] = "http://pws.example/upload",
              !["rapidfire"] = r, !["archive_post"] = a] :
      t \in Tuning, e \in {Missing, "true"}, r \in {Missing, "true", "false"},
      a \in {Missing, "true", "false", "maybe"} }

\* the same with one requirement unmet
DefectiveLike ==
  UNION { { Remove(d, "station"), Remove(d, "password"), Remove(d, "server_url"),
            [d EXCEPT !["station"] = "replace_me"],
            [d EXCEPT !["server_url"] = "replace_me"],
            [d EXCEPT !["enable"] = "false"] } : d \in CompleteLike }

LikeSections == {NoSection} \cup {Section(d) : d \in CompleteLike \cup DefectiveLike}

WuBase == [EmptyDict EXCEPT !["station"] = "KWU1", !["password"] = "wupw"]

WuSections ==
  { NoSection,
    Section([WuBase EXCEPT !["enable"] = "false"]),
    Section(WuBase),
    Section([WuBase EXCEPT !["rapidfire"] = "true"]),
    Section([WuBase EXCEPT !["rapidfire"] = "true", !["archive_post"] = "true"]) }

\* the root option log_success/log_failure of weewx.conf
RootLog == {Missing, "false"}

\* --------------------------------------------------------------- the state
VARIABLES
  config_dict,        \* the host's configuration
  pc,                 \* position in __init__: start .. done | raised
  listeners,          \* engine callbacks: event type -> sequence of callbacks
  queues,             \* every queue.Queue constructed, by identity
  threads,            \* every worker constructed
  archive_queue, archive_thread, loop_queue, loop_thread, cached_values,
  ambient_dict,       \* __init__'s _ambient_dict
  do_rapidfire_post, do_archive_post,
  event,              \* the event the host dispatched last
  nevents             \* how many events the host has dispatched

vars ==
  <<config_dict, pc, listeners, queues, threads, archive_queue, archive_thread,
    loop_queue, loop_thread, cached_values, ambient_dict, do_rapidfire_post,
    do_archive_post, event, nevents>>

\* ------------------------------------------------------------ get_site_dict
\* weewx.restx.get_site_dict(config_dict, service, *args): None, or the
\* section's options with log_success/log_failure filled in and enable gone.
get_site_dict(cfg, service, required) ==
  LET sec == cfg[service]
      d0 == sec.opts
      d1 == SetDefault(d0, "log_success",
                       PyBool(to_bool(Get(cfg.root, "log_success", "True")).val))
      d2 == SetDefault(d1, "log_failure",
                       PyBool(to_bool(Get(cfg.root, "log_failure", "True")).val))
  IN IF ~sec.present THEN [none |-> TRUE, d |-> EmptyDict]
     ELSE IF Has(d0, "enable") /\ ~to_bool(d0["enable"]).val
       THEN [none |-> TRUE, d |-> EmptyDict]
     ELSE IF \E option \in required : ~Has(d0, option) \/ d0[option] = "replace_me"
       THEN [none |-> TRUE, d |-> EmptyDict]
     ELSE [none |-> FALSE, d |-> Remove(d2, "enable")]

\* ------------------------------------------------------------ self and host
\* The service object together with what it reaches in the host: the engine's
\* callback table, the queues and the workers it constructed.
Self ==
  [listeners |-> listeners, queues |-> queues, threads |-> threads,
   archive_queue |-> archive_queue, archive_thread |-> archive_thread,
   loop_queue |-> loop_queue, loop_thread |-> loop_thread,
   cached_values |-> cached_values]

SetSelf(o) ==
  /\ listeners' = o.listeners
  /\ queues' = o.queues
  /\ threads' = o.threads
  /\ archive_queue' = o.archive_queue
  /\ archive_thread' = o.archive_thread
  /\ loop_queue' = o.loop_queue
  /\ loop_thread' = o.loop_thread
  /\ cached_values' = o.cached_values

\* weewx.engine.StdService.bind: the engine appends the callback
bind(o, event_type, callback) ==
  [o EXCEPT !.listeners[event_type] = Append(@, callback)]

Thread(protocol_name, q, kwargs) ==
  [protocol_name |-> protocol_name, queue |-> q, kwargs |-> kwargs, started |-> TRUE]

\* weewx.restx.CachedValues()
NoCache == [set |-> FALSE, unit_system |-> PyNone, values |-> [k \in {} |-> [value |-> PyNone, ts |-> 0]]]
NewCache == [set |-> TRUE, unit_system |-> PyNone, values |-> [k \in {} |-> [value |-> PyNone, ts |-> 0]]]

\* do_rapidfire_post = to_bool(_ambient_dict.pop('rapidfire', False))
DoRapidfirePost(d) == to_bool(Get(d, "rapidfire", "False"))

\* a variant that takes the default to be the rapidfire flag itself
DoArchivePost_sameAsRapidfire(d, rf) == to_bool(Get(d, "archive_post", PyBool(rf)))

\* a variant that never looks at the configured archive_post
DoArchivePost_ignoresOption(d, rf) == to_bool(PyBool(~rf))

\* do_archive_post = to_bool(_ambient_dict.pop('archive_post', not do_rapidfire_post))
DoArchivePost(d, rf) == to_bool(Get(d, "archive_post", PyBool(~rf)))

\* a variant that assigns the class default instead of setdefault
ArchiveServerUrl_assigned(d) == [d EXCEPT !["server_url"] = pws_url]

\* _ambient_dict.setdefault('server_url', WundergroundLike.pws_url)
ArchiveServerUrl(d) == SetDefault(d, "server_url", pws_url)

\* the body of "if do_archive_post:": queue, worker, start, bind
ArchivePath(o, d, protocol_name) ==
  LET q == Len(o.queues) + 1
      t == Len(o.threads) + 1
      o1 == [o EXCEPT !.queues = Append(@, <<>>), !.archive_queue = q,
                      !.threads = Append(@, Thread(protocol_name, q, d)),
                      !.archive_thread = t]
  IN bind(o1, NEW_ARCHIVE_RECORD, "new_archive_record")

\* the setdefault lines of "if do_rapidfire_post:"
RapidfireDefaults(d, url) ==
  SetDefault(SetDefault(SetDefault(SetDefault(SetDefault(SetDefault(d,
    "server_url", url), "log_success", "False"), "log_failure", "False"),
    "max_backlog", "0"), "max_tries", "1"), "rtfreq", "2.5")

\* the rest of "if do_rapidfire_post:" where CachedValues resolves (the parent)
RapidfirePath(o, d, protocol_name) ==
  LET q == Len(o.queues) + 1
      t == Len(o.threads) + 1
      o1 == [o EXCEPT !.cached_values = NewCache,
                      !.queues = Append(@, <<>>), !.loop_queue = q,
                      !.threads = Append(@, Thread(protocol_name, q, d)),
                      !.loop_thread = t]
  IN bind(o1, NEW_LOOP_PACKET, "new_loop_packet")

\* weewx.restx.StdWunderground.__init__, which super().__init__ runs: the code
\* of WundergroundLike.__init__ without the differences its docstring lists
\* (section 'Wunderground', the parent's URLs, no forced rapidfire).
StdWunderground_init(o, cfg) ==
  LET site == get_site_dict(cfg, "Wunderground", {"station", "password"})
      rf == DoRapidfirePost(site.d).val
      d1 == Remove(site.d, "rapidfire")
      ap == to_bool(Get(d1, "archive_post", PyBool(~rf))).val
      d2 == Remove(d1, "archive_post")
      d3 == IF ap THEN SetDefault(d2, "server_url", Std_pws_url) ELSE d2
      o1 == IF ap THEN ArchivePath(o, d3, "Wunderground-PWS") ELSE o
      d4 == RapidfireDefaults(d3, Std_rf_url)
  IN IF site.none THEN o
     ELSE IF rf THEN RapidfirePath(o1, d4, "Wunderground-RF")
     ELSE o1

\* ------------------------------------------------------------ CachedValues
\* get_packet's default stale_age, in seconds
stale_age == 960

\* CachedValues.update(packet, ts): every observation of the packet is cached
\* with the time it was cached; dateTime is not cached, usUnits fixes the
\* unit system (the host's packets share one unit system)
update(c, packet, ts) ==
  LET obs == DOMAIN packet \ {"dateTime", "usUnits"}
  IN [c EXCEPT
        !.unit_system = IF @ = PyNone THEN packet["usUnits"] ELSE @,
        !.values = [k \in (DOMAIN c.values) \cup obs |->
                      IF k \in obs THEN [value |-> packet[k], ts |-> ts]
                      ELSE c.values[k]]]

\* CachedValues.get_value(k, ts, stale_age)
get_value(c, k, ts) ==
  IF k \in DOMAIN c.values /\ ts - c.values[k].ts < stale_age
  THEN c.values[k].value ELSE PyNone

\* CachedValues.get_packet(ts)
get_packet(c, ts) ==
  [k \in {"dateTime", "usUnits"} \cup DOMAIN c.values |->
     IF k = "dateTime" THEN ts
     ELSE IF k = "usUnits" THEN c.unit_system
     ELSE get_value(c, k, ts)]

\* --------------------------------------------------------------- callbacks
\* a variant that enqueues a copy without the record's usUnits field
new_archive_record_stripped(o, ev) ==
  [o EXCEPT !.queues[o.archive_queue] =
     Append(@, [k \in DOMAIN ev.record \ {"usUnits"} |-> ev.record[k]])]

\* WundergroundLike.new_archive_record(event)
new_archive_record(o, ev) ==
  [o EXCEPT !.queues[o.archive_queue] = Append(@, ev.record)]

\* a variant that drops a packet whose observations the cache already holds
new_loop_packet_deduplicating(o, ev) ==
  LET ts == ev.packet["dateTime"]
      c1 == update(o.cached_values, ev.packet, ts)
      known == \A k \in DOMAIN ev.packet \ {"dateTime", "usUnits"} :
                 /\ k \in DOMAIN o.cached_values.values
                 /\ o.cached_values.values[k].value = ev.packet[k]
  IN IF known THEN [o EXCEPT !.cached_values = c1]
     ELSE [o EXCEPT !.cached_values = c1,
                    !.queues[o.loop_queue] = Append(@, get_packet(c1, ts))]

\* WundergroundLike.new_loop_packet(event)
new_loop_packet(o, ev) ==
  LET ts == ev.packet["dateTime"]
      c1 == update(o.cached_values, ev.packet, ts)
  IN [o EXCEPT !.cached_values = c1,
               !.queues[o.loop_queue] = Append(@, get_packet(c1, ts))]

\* the engine calls every callback bound to the event's type, in bind order
RECURSIVE dispatchEvent(_, _, _)
dispatchEvent(callbacks, o, ev) ==
  IF callbacks = <<>> THEN o
  ELSE LET o1 == IF Head(callbacks) = "new_archive_record"
                 THEN new_archive_record(o, ev)
                 ELSE new_loop_packet(o, ev)
       IN dispatchEvent(Tail(callbacks), o1, ev)

\* ------------------------------------------------------------------ events
\* seconds between two events of the host
Intervals == {300, 1000}
Temps == {70, 71}
Winds == {5}

ArchiveRecords(t) ==
  { [dateTime |-> t, usUnits |-> 1, outTemp |-> v, interval |-> 5] : v \in Temps }

LoopPackets(t) ==
  { [dateTime |-> t, usUnits |-> 1, outTemp |-> v] : v \in Temps }
    \cup { [dateTime |-> t, usUnits |-> 1, windSpeed |-> w] : w \in Winds }

NoEvent == [type |-> "none", dateTime |-> 0]

\* --------------------------------------------------------------- __init__
\* a variant that leaves the user's rapidfire value in place
ForceRapidfire_skipped(d) == d

\* a variant that stores True
ForceRapidfire_setsTrue(d) == [d EXCEPT !["rapidfire"] = "True"]

\* _ambient_dict['rapidfire'] = False
ForceRapidfire(d) == [d EXCEPT !["rapidfire"] = "False"]

Init ==
  /\ config_dict \in [root : {[EmptyDict EXCEPT !["log_success"] = l] : l \in RootLog},
                      Wunderground : WuSections,
                      WundergroundLike : LikeSections]
  /\ pc = "start"
  /\ listeners = [e \in {NEW_ARCHIVE_RECORD, NEW_LOOP_PACKET} |-> <<>>]
  /\ queues = <<>>
  /\ threads = <<>>
  /\ archive_queue = 0
  /\ archive_thread = 0
  /\ loop_queue = 0
  /\ loop_thread = 0
  /\ cached_values = NoCache
  /\ ambient_dict = EmptyDict
  /\ do_rapidfire_post = FALSE
  /\ do_archive_post = FALSE
  /\ event = NoEvent
  /\ nevents = 0

\* line 90: super().__init__(engine, config_dict)
SuperInit ==
  /\ pc = "start"
  /\ SetSelf(StdWunderground_init(Self, config_dict))
  /\ pc' = "lookup"
  /\ UNCHANGED <<config_dict, ambient_dict, do_rapidfire_post, do_archive_post,
                 event, nevents>>

\* lines 92-97: the configuration lookup and the early return (the log.info
\* of line 97 has no placeholder for its argument; logging reports that on
\* stderr and does not raise)
Lookup ==
  /\ pc = "lookup"
  /\ LET site == get_site_dict(config_dict, "WundergroundLike",
                               {"station", "password", "server_url"})
     IN IF site.none
        THEN pc' = "done" /\ UNCHANGED ambient_dict
        ELSE pc' = "configure" /\ ambient_dict' = site.d
  /\ UNCHANGED <<config_dict, listeners, queues, threads, archive_queue,
                 archive_thread, loop_queue, loop_thread, cached_values,
                 do_rapidfire_post, do_archive_post, event, nevents>>

\* lines 99-118: the forced flag, the Essentials lookup (KeyError when
\* [StdRESTful] has no [[Wunderground]]) and the two flags (ValueError when
\* to_bool does not know the value)
Configure ==
  /\ pc = "configure"
  /\ LET d1 == ForceRapidfire(ambient_dict)
         rf == DoRapidfirePost(d1)
         d2 == Remove(d1, "rapidfire")
         ap == DoArchivePost(d2, rf.val)
         d3 == Remove(d2, "archive_post")
     IN IF ~config_dict.Wunderground.present
        THEN /\ pc' = "raised"
             /\ ambient_dict' = d1
             /\ UNCHANGED <<do_rapidfire_post, do_archive_post>>
        ELSE IF ~rf.ok
        THEN /\ pc' = "raised"
             /\ ambient_dict' = d2
             /\ UNCHANGED <<do_rapidfire_post, do_archive_post>>
        ELSE IF ~ap.ok
        THEN /\ pc' = "raised"
             /\ ambient_dict' = d3
             /\ do_rapidfire_post' = rf.val
             /\ UNCHANGED do_archive_post
        ELSE /\ pc' = "archive"
             /\ ambient_dict' = d3
             /\ do_rapidfire_post' = rf.val
             /\ do_archive_post' = ap.val
  /\ UNCHANGED <<config_dict, listeners, queues, threads, archive_queue,
                 archive_thread, loop_queue, loop_thread, cached_values,
                 event, nevents>>

\* lines 119-131: if do_archive_post
ArchivePost ==
  /\ pc = "archive"
  /\ IF do_archive_post
     THEN LET d == ArchiveServerUrl(ambient_dict)
          IN /\ ambient_dict' = d
             /\ SetSelf(ArchivePath(Self, d, "WundergroundLike"))
     ELSE /\ SetSelf(Self)
          /\ UNCHANGED ambient_dict
  /\ pc' = "rapidfire"
  /\ UNCHANGED <<config_dict, do_rapidfire_post, do_archive_post, event, nevents>>

\* lines 133-151: if do_rapidfire_post; the name CachedValues of line 140 is
\* not defined in the module, so the branch ends in a NameError after its
\* setdefault lines
RapidfirePost ==
  /\ pc = "rapidfire"
  /\ IF do_rapidfire_post
     THEN /\ ambient_dict' = RapidfireDefaults(ambient_dict, Std_rf_url)
          /\ pc' = "raised"
     ELSE /\ UNCHANGED ambient_dict
          /\ pc' = "done"
  /\ UNCHANGED <<config_dict, listeners, queues, threads, archive_queue,
                 archive_thread, loop_queue, loop_thread, cached_values,
                 do_rapidfire_post, do_archive_post, event, nevents>>

\* the host emits a new-archive-record event and the engine dispatches it
ArchiveEvent ==
  /\ pc = "done"
  /\ nevents < MaxEvents
  /\ listeners[NEW_ARCHIVE_RECORD] # <<>>
  /\ \E dt \in Intervals : \E r \in ArchiveRecords(event.dateTime + dt) :
       LET ev == [type |-> NEW_ARCHIVE_RECORD, dateTime |-> r.dateTime, record |-> r]
       IN /\ event' = ev
          /\ SetSelf(dispatchEvent(listeners[NEW_ARCHIVE_RECORD], Self, ev))
  /\ nevents' = nevents + 1
  /\ UNCHANGED <<config_dict, pc, ambient_dict, do_rapidfire_post, do_archive_post>>

\* the host emits a new-live-packet event and the engine dispatches it
LoopEvent ==
  /\ pc = "done"
  /\ nevents < MaxEvents
  /\ listeners[NEW_LOOP_PACKET] # <<>>
  /\ \E dt \in Intervals : \E p \in LoopPackets(event.dateTime + dt) :
       LET ev == [type |-> NEW_LOOP_PACKET, dateTime |-> p.dateTime, packet |-> p]
       IN /\ event' = ev
          /\ SetSelf(dispatchEvent(listeners[NEW_LOOP_PACKET], Self, ev))
  /\ nevents' = nevents + 1
  /\ UNCHANGED <<config_dict, pc, ambient_dict, do_rapidfire_post, do_archive_post>>

Next ==
  \/ SuperInit
  \/ Lookup
  \/ Configure
  \/ ArchivePost
  \/ RapidfirePost
  \/ ArchiveEvent
  \/ LoopEvent

Spec == Init /\ [][Next]_vars

\* ------------------------------------------------------------------ claims
LikeOpts == config_dict.WundergroundLike.opts
LikeSite ==
  get_site_dict(config_dict, "WundergroundLike", {"station", "password", "server_url"})
\* station, password and server_url are there and the section is not disabled
LikeComplete == ~LikeSite.none
\* the section asks for the live path
LiveRequested == LikeComplete /\ Has(LikeOpts, "rapidfire") /\ to_bool(LikeOpts["rapidfire"]).val
\* the archive path of WundergroundLike's own steps: queue, started worker, callback
OwnArchive ==
  /\ archive_queue # 0
  /\ archive_thread # 0
  /\ threads[archive_thread].protocol_name = "WundergroundLike"
  /\ threads[archive_thread].queue = archive_queue
  /\ threads[archive_thread].started
  /\ \E i \in DOMAIN listeners[NEW_ARCHIVE_RECORD] :
       listeners[NEW_ARCHIVE_RECORD][i] = "new_archive_record"
ArchiveDispatched == event'.type = NEW_ARCHIVE_RECORD /\ event' # event
LoopDispatched == event'.type = NEW_LOOP_PACKET /\ event' # event
Observations(p) == DOMAIN p \ {"dateTime", "usUnits"}

\* C1: with station, password or server_url missing from [[WundergroundLike]],
\* the initializer returns without raising and leaves no listener, no queue
\* and no worker.
C1_IncompleteRegistersNothing ==
  ~LikeComplete =>
    /\ pc # "raised"
    /\ pc = "done" =>
         /\ listeners[NEW_ARCHIVE_RECORD] = <<>>
         /\ listeners[NEW_LOOP_PACKET] = <<>>
         /\ queues = <<>>
         /\ threads = <<>>

\* C2: every entry a new-archive-record event adds to the archive queue is the
\* event's record, field for field; what the queue held stays as it was.
C2_RecordEnqueuedUnchanged ==
  [][ArchiveDispatched =>
       LET before == queues[archive_queue]
           after == queues'[archive_queue']
       IN /\ Len(after) > Len(before)
          /\ SubSeq(after, 1, Len(before)) = before
          /\ \A i \in (Len(before) + 1)..Len(after) : after[i] = event'.record]_vars

C2_Witness ==
  /\ event.type = NEW_ARCHIVE_RECORD
  /\ OwnArchive
  /\ Len(queues[archive_queue]) > 0
  /\ queues[archive_queue][Len(queues[archive_queue])] = event.record

\* a packet is novel when one of its observations is not yet in the cache
\* with that value
Novel(c, p) ==
  \E k \in Observations(p) : k \notin DOMAIN c.values \/ c.values[k].value # p[k]

\* C3 as stated: the live queue receives an entry if and only if the packet
\* is novel; a packet that is not novel leaves the queue unchanged.
C3_EnqueuedIffNovel ==
  [][LoopDispatched =>
       (Len(queues'[loop_queue']) > Len(queues[loop_queue])
          <=> Novel(cached_values, event'.packet))]_vars

\* C3 amended: every new-live-packet event adds exactly one entry to the live
\* queue, stamped with the packet's time and carrying each observation of the
\* packet, and the cache holds the packet's observations afterwards.
C3_EveryPacketEnqueued ==
  [][LoopDispatched =>
       LET before == queues[loop_queue]
           after == queues'[loop_queue']
           p == event'.packet
       IN /\ Len(after) = Len(before) + 1
          /\ SubSeq(after, 1, Len(before)) = before
          /\ after[Len(after)]["dateTime"] = p["dateTime"]
          /\ \A k \in Observations(p) :
               /\ after[Len(after)][k] = p[k]
               /\ cached_values'.values[k] = [value |-> p[k], ts |-> p["dateTime"]]]_vars

\* the second of two packets with the same temperature is in the queue
C3_Witness ==
  /\ event.type = NEW_LOOP_PACKET
  /\ loop_queue # 0
  /\ Len(queues[loop_queue]) = 2
  /\ "outTemp" \in DOMAIN event.packet
  /\ "outTemp" \in DOMAIN queues[loop_queue][1]
  /\ queues[loop_queue][1]["outTemp"] = event.packet["outTemp"]
  /\ queues[loop_queue][2]["outTemp"] = event.packet["outTemp"]

\* C4: for a complete section, whatever rapidfire says, the flag that decides
\* the paths is false and no worker of WundergroundLike receives a rapidfire
\* option.
C4_RapidfireForcedFalse ==
  (LikeComplete /\ pc \in {"archive", "rapidfire", "done"}) =>
    /\ do_rapidfire_post = FALSE
    /\ ~Has(ambient_dict, "rapidfire")
    /\ \A i \in DOMAIN threads :
         threads[i].protocol_name = "WundergroundLike" =>
           ~Has(threads[i].kwargs, "rapidfire")

C4_Witness ==
  /\ pc = "done"
  /\ LikeComplete
  /\ LikeOpts["rapidfire"] = "true"
  /\ do_rapidfire_post = FALSE
  /\ OwnArchive

LiveDefault ==
  [k \in {"max_tries", "max_backlog", "log_success", "log_failure", "rtfreq"} |->
     CASE k = "max_tries" -> "1"
       [] k = "max_backlog" -> "0"
       [] k = "rtfreq" -> "2.5"
       [] OTHER -> "False"]

\* C6 as stated: a live-path request ends with a live worker whose options are
\* the configured values and, for the keys not configured, the live defaults.
C6_LiveWorkerGetsDefaults ==
  (pc = "done" /\ LiveRequested) =>
    /\ loop_thread # 0
    /\ \A k \in DOMAIN LiveDefault :
         to_bool(threads[loop_thread].kwargs[k])
           = to_bool(Get(LikeOpts, k, LiveDefault[k]))
    /\ \A k \in {"max_tries", "max_backlog", "rtfreq"} :
         threads[loop_thread].kwargs[k] = Get(LikeOpts, k, LiveDefault[k])

\* C6 amended: on a live-path request the rapidfire step of WundergroundLike's
\* own initializer constructs no worker and applies no live default: the site
\* dictionary keeps max_tries, max_backlog and rtfreq exactly as configured
\* (absent when not configured) and log_success, log_failure as configured or
\* else as the host-wide setting.
C6_LiveRequestAppliesNoDefaults ==
  [][(pc = "rapidfire" /\ LiveRequested) =>
       /\ pc' = "done"
       /\ threads' = threads
       /\ loop_thread' = loop_thread
       /\ ambient_dict' = ambient_dict
       /\ \A k \in {"max_tries", "max_backlog", "rtfreq"} :
            ambient_dict'[k] = LikeOpts[k]
       /\ \A k \in {"log_success", "log_failure"} :
            ambient_dict'[k] =
              Get(LikeOpts, k, PyBool(to_bool(Get(config_dict.root, k, "True")).val))]_vars

C6_Witness ==
  /\ pc = "done"
  /\ LiveRequested
  /\ loop_thread = 0
  /\ ~Has(ambient_dict, "max_tries")
  /\ ambient_dict["log_success"] = "True"

\* C7: with the archive path on, new_archive_record is bound once and each
\* new-archive-record event appends exactly one entry, the event's record, to
\* the archive queue.
C7_OneEntryPerArchiveEvent ==
  [][(ArchiveDispatched /\ OwnArchive) =>
       /\ Len(listeners[NEW_ARCHIVE_RECORD]) = 1
       /\ queues'[archive_queue'] = Append(queues[archive_queue], event'.record)]_vars

Listening ==
  /\ listeners[NEW_ARCHIVE_RECORD] # <<>> \/ listeners[NEW_LOOP_PACKET] # <<>>
  /\ threads # <<>>
Disabled ==
  /\ listeners[NEW_ARCHIVE_RECORD] = <<>>
  /\ listeners[NEW_LOOP_PACKET] = <<>>
  /\ threads = <<>>

\* C8: the initializer never raises, and once it has returned the component
\* is either listening or disabled.
C8_InitNeverRaises ==
  /\ pc # "raised"
  /\ pc = "done" => (Listening \/ Disabled)

\* C9: the worker of the archive path gets the section's server_url, station
\* and password, and no worker gets a placeholder URL.
C9_WorkerGetsServerUrl ==
  /\ \A i \in DOMAIN threads : threads[i].kwargs["server_url"] \notin {pws_url, rf_url}
  /\ (pc \in {"rapidfire", "done"} /\ LikeComplete /\ do_archive_post) =>
       /\ OwnArchive
       /\ \A k \in {"server_url", "station", "password"} :
            threads[archive_thread].kwargs[k] = LikeOpts[k]

C9_Witness ==
  /\ pc = "done"
  /\ OwnArchive
  /\ threads[archive_thread].kwargs["server_url"] = "http://pws.example/upload"
  /\ threads[archive_thread].kwargs["station"] = "KLIKE1"

OwnStep ==
  pc \in {"configure", "archive", "rapidfire"} =>
    /\ loop_queue' = loop_queue
    /\ loop_thread' = loop_thread
    /\ cached_values' = cached_values
    /\ listeners'[NEW_LOOP_PACKET] = listeners[NEW_LOOP_PACKET]
    /\ listeners'[NEW_ARCHIVE_RECORD] \in
         { listeners[NEW_ARCHIVE_RECORD],
           Append(listeners[NEW_ARCHIVE_RECORD], "new_archive_record") }
    /\ \A i \in DOMAIN threads' :
         (i \notin DOMAIN threads) => (threads'[i].protocol_name = "WundergroundLike")
    /\ (Has(LikeOpts, "archive_post") /\ ~to_bool(LikeOpts["archive_post"]).val) =>
         (listeners' = listeners /\ queues' = queues /\ threads' = threads)

\* C10: the steps after the lookup bind nothing or new_archive_record alone,
\* never touch the live queue, the cache, the live worker or the live
\* listeners, and with archive_post false they enable nothing.
C10_OwnStepsNeverEnableLive == [][OwnStep]_vars

C10_Witness ==
  /\ pc = "done"
  /\ LikeComplete
  /\ LikeOpts["archive_post"] = "false"
  /\ LikeOpts["rapidfire"] = "true"
  /\ Disabled
  /\ archive_queue = 0
  /\ loop_queue = 0

====
